---- MODULE Spec2Model ----
(***************************************************************************)
(* Model of create_budget_sankey of src/sankey_budget.py and of the caller *)
(* that fills the two dicts and calls it.  (The script variant             *)
(* src/sankey-budget.py has the same body, with a whole-dollar label       *)
(* format and with print of the unformatted totals in place of st.warning  *)
(* and st.success.)                                                        *)
(*                                                                         *)
(* A dict is a sequence of [label, amount] records with pairwise distinct  *)
(* labels, in insertion order.  Amounts are whole numbers of thirds of a   *)
(* cent, so that the two-decimal label format really rounds (and never     *)
(* meets an exact tie).  A display label f"{label}\n${amount:,.2f}" is the *)
(* pair <<label, cents>>.  Node indices are 0-based as in the code.        *)
(* Positions are exact fractions <<numerator, denominator>>.               *)
(***************************************************************************)
EXTENDS Integers, Sequences, FiniteSets, TLC

\* ---- bounds of the model ----
MaxAmount == 3
MaxLong == 19
MaxLongCalls == 1

\* ---- inputs the caller draws from ----
Amounts == 0..MaxAmount
RichLabels == {"A", "Budget"}
FillerLabels ==
  << "L01", "L02", "L03", "L04", "L05", "L06", "L07", "L08", "L09", "L10",
     "L11", "L12", "L13", "L14", "L15", "L16", "L17", "L18", "L19", "L20",
     "L21", "L22", "L23", "L24" >>
FillerSet == {FillerLabels[i] : i \in 1..Len(FillerLabels)}
Names == RichLabels \cup FillerSet

\* ---- plotly.colors.qualitative palettes (module globals) ----
PlotlyPastel1 ==
  << "rgb(251,180,174)", "rgb(179,205,227)", "rgb(204,235,197)",
     "rgb(222,203,228)", "rgb(254,217,166)", "rgb(255,255,204)",
     "rgb(229,216,189)", "rgb(253,218,236)", "rgb(242,242,242)" >>
PlotlyPastel2 ==
  << "rgb(179,226,205)", "rgb(253,205,172)", "rgb(203,213,232)",
     "rgb(244,202,228)", "rgb(230,245,201)", "rgb(255,242,174)",
     "rgb(241,226,204)", "rgb(204,204,204)" >>

\* income_sources, expenses : the caller's dicts;  Pastel1, Pastel2 : the
\* palettes of plotly.colors.qualitative;  pc : "input" or "returned";
\* fig, messages, frame : the figure returned by the last call, what it
\* reported, and its locals;  long_calls : how many calls so far had more
\* entries than a palette has colours (history, saturating at MaxLongCalls)
VARIABLES income_sources, expenses, Pastel1, Pastel2, pc, fig, messages, frame, long_calls
vars == <<income_sources, expenses, Pastel1, Pastel2, pc, fig, messages, frame, long_calls>>

\* ---- dict helpers ----
Keys(d) == [i \in 1..Len(d) |-> d[i].label]
Values(d) == [i \in 1..Len(d) |-> d[i].amount]
Range(s) == {s[i] : i \in 1..Len(s)}
HasKey(d, k) == \E i \in 1..Len(d) : d[i].label = k

\* d[k] = v : overwrite in place when k is present, else append
DictSet(d, k, v) ==
  IF HasKey(d, k)
  THEN [i \in 1..Len(d) |-> IF d[i].label = k THEN [label |-> k, amount |-> v] ELSE d[i]]
  ELSE Append(d, [label |-> k, amount |-> v])

\* list * n
RECURSIVE Repeat(_, _)
Repeat(s, n) == IF n <= 0 THEN <<>> ELSE s \o Repeat(s, n - 1)

\* sum(d.values())
RECURSIVE SumSeq(_)
SumSeq(s) == IF s = <<>> THEN 0 ELSE Head(s) + SumSeq(Tail(s))
SumValues(d) == SumSeq(Values(d))

\* f"{amount:,.2f}" : the amount (thirds of a cent) rounded to whole cents
FormatAmount(amount) == (amount + 1) \div 3

\* f"{label}\n${amount:,.2f}"
DisplayLabel(label, amount) == <<label, FormatAmount(amount)>>

\* ---- create_budget_sankey, piece by piece ----

\* variant of Validate: the comparison of line 31 written <=
Validate_LessEqual(total_income, total_expenses) ==
  IF total_income <= total_expenses
  THEN [kind |-> "warning",
        discrepancy |-> <<total_expenses - total_income>>,
        text |-> << <<"exceed", FormatAmount(total_expenses), FormatAmount(total_income)>>,
                    <<"Discrepancy", FormatAmount(total_expenses - total_income)>> >>]
  ELSE [kind |-> "success",
        discrepancy |-> <<>>,
        text |-> << <<"Total Income", FormatAmount(total_income)>>,
                    <<"Total Expenses", FormatAmount(total_expenses)>> >>]

\* lines 31-37: the two-way report; discrepancy is bound only in the first branch
Validate(total_income, total_expenses) ==
  IF total_income < total_expenses
  THEN [kind |-> "warning",
        discrepancy |-> <<total_expenses - total_income>>,
        text |-> << <<"exceed", FormatAmount(total_expenses), FormatAmount(total_income)>>,
                    <<"Discrepancy", FormatAmount(total_expenses - total_income)>> >>]
  ELSE [kind |-> "success",
        discrepancy |-> <<>>,
        text |-> << <<"Total Income", FormatAmount(total_income)>>,
                    <<"Total Expenses", FormatAmount(total_expenses)>> >>]

\* lines 45 and 47
labels_with_amount(d) == [i \in 1..Len(d) |-> DisplayLabel(d[i].label, d[i].amount)]

\* variant of budget_amount: the pool sized to the larger of the two totals
budget_amount_Larger(total_income, total_expenses) ==
  IF total_expenses > total_income THEN total_expenses ELSE total_income

\* line 46: the amount the pool declares ("Assuming Budget receives all income")
budget_amount(total_income, total_expenses) == total_income

\* line 46
budget_label_with_amount(amount) == DisplayLabel("Budget", amount)

\* line 49
all_labels(income_labels_with_amount, budget_label, expense_labels_with_amount) ==
  income_labels_with_amount \o <<budget_label>> \o expense_labels_with_amount

\* position of the last occurrence of x in s (a later dict entry overwrites)
LastPos(s, x) ==
  CHOOSE i \in 1..Len(s) : s[i] = x /\ \A j \in 1..Len(s) : s[j] = x => j <= i

\* line 55: {label: idx for idx, label in enumerate(all_labels)}
label_indices(labels) == [l \in Range(labels) |-> LastPos(labels, l) - 1]

\* variant of LookupKey: the key built from the unformatted amount
LookupKey_Raw(label, amount) == <<label, amount>>

\* lines 77 and 85: the key looked up for an entry
LookupKey(label, amount) == DisplayLabel(label, amount)

\* variant of ExtendPalette: the repetition count without its + 1
ExtendPalette_NoExtra(palette, n) ==
  IF n > Len(palette) THEN Repeat(palette, n \div Len(palette)) ELSE palette

\* lines 59-60 and 65-66: the palette the function indexes
ExtendPalette(palette, n) ==
  IF n > Len(palette) THEN Repeat(palette, n \div Len(palette) + 1) ELSE palette

\* variant of GlobalAfterCall: the palette extended in place (*=)
GlobalAfterCall_InPlace(palette, n) == ExtendPalette(palette, n)

\* lines 58-60: the local name is rebound to a new list, the module's list stays
GlobalAfterCall(palette, n) == palette

\* lines 61 and 67: {label: palette[i] for i, label in enumerate(labels)}
color_map(labels, palette) == [l \in Range(labels) |-> palette[LastPos(labels, l)]]

\* variant of y_spacing: 1 / k
y_spacing_NoPlusOne(k) == <<1, k>>

\* lines 104-106 and 110-112: spacing = 1 / (k + 1), y = (i + 1) * spacing
y_spacing(k) == <<1, k + 1>>
Times(m, f) == <<m * f[1], f[2]>>
column_y(k) == [i \in 1..k |-> Times(i, y_spacing(k))]

\* lines 90-100
node_x(num_income, num_expense) ==
  [i \in 1..num_income |-> <<0, 1>>] \o << <<1, 2>> >> \o [i \in 1..num_expense |-> <<1, 1>>]

\* lines 102-112
node_y(num_income, num_expense) ==
  column_y(num_income) \o << <<1, 2>> >> \o column_y(num_expense)

\* variant of node_color: the pool's colour left out
node_color_NoPool(num_income, num_expense) ==
  [i \in 1..num_income |-> "#a6cee3"] \o [i \in 1..num_expense |-> "#ffbb78"]

\* line 122
node_color(num_income, num_expense) ==
  [i \in 1..num_income |-> "#a6cee3"] \o <<"#98df8a">> \o [i \in 1..num_expense |-> "#ffbb78"]

\* variant of link_value: the amounts rounded to whole cents
link_value_Rounded(income, expense) ==
  [i \in 1..Len(income) |-> 3 * FormatAmount(income[i].amount)]
    \o [i \in 1..Len(expense) |-> 3 * FormatAmount(expense[i].amount)]

\* lines 79 and 86: values.append(amount)
link_value(income, expense) == Values(income) \o Values(expense)

\* variant of link_color: the income colours appended in reverse order
link_color_Reversed(income, expense, income_color_map, expense_color_map) ==
  [i \in 1..Len(income) |-> income_color_map[income[Len(income) + 1 - i].label]]
    \o [i \in 1..Len(expense) |-> expense_color_map[expense[i].label]]

\* lines 80 and 87: colors.append(income_color_map[income]), then the expenses
link_color(income, expense, income_color_map, expense_color_map) ==
  [i \in 1..Len(income) |-> income_color_map[income[i].label]]
    \o [i \in 1..Len(expense) |-> expense_color_map[expense[i].label]]

\* dict.update
Merge(a, b) == [k \in (DOMAIN a) \cup (DOMAIN b) |-> IF k \in DOMAIN b THEN b[k] ELSE a[k]]

\* lines 135-146
layout_update(title, title_color, layout) ==
  LET base == [title_text |-> title,
               title_font |-> [size |-> 24, color |-> title_color],
               font_size |-> 12, height |-> 700, width |-> 1000]
  IN IF DOMAIN layout # {} THEN Merge(base, layout) ELSE base

NoFigure == [arrangement |-> "none"]
NoFrame == [raised |-> "not called"]
NoMessages == [kind |-> "none"]

\* lines 5-151: the whole call; raised names the first exception, if any
create_budget_sankey(income, expense, title, title_color, layout, palette1, palette2) ==
  LET total_income == SumValues(income)
      total_expenses == SumValues(expense)
      income_labels == Keys(income)
      expense_labels == Keys(expense)
      budget_key == budget_label_with_amount(budget_amount(total_income, total_expenses))
      labels == all_labels(labels_with_amount(income), budget_key, labels_with_amount(expense))
      num_income == Len(income_labels)
      num_expense == Len(expense_labels)
      indices == label_indices(labels)
      income_colors_palette == ExtendPalette(palette1, num_income)
      expense_colors_palette == ExtendPalette(palette2, num_expense)
      income_keys == [i \in 1..num_income |-> LookupKey(income[i].label, income[i].amount)]
      expense_keys == [i \in 1..num_expense |-> LookupKey(expense[i].label, expense[i].amount)]
      raised ==
        IF num_income > Len(income_colors_palette) \/ num_expense > Len(expense_colors_palette)
        THEN "IndexError"
        ELSE IF \E i \in 1..num_income : income_keys[i] \notin DOMAIN indices
        THEN "KeyError"
        ELSE IF num_income + num_expense > 0 /\ budget_key \notin DOMAIN indices
        THEN "KeyError"
        ELSE IF \E i \in 1..num_expense : expense_keys[i] \notin DOMAIN indices
        THEN "KeyError"
        ELSE "none"
      income_color_map == color_map(income_labels, income_colors_palette)
      expense_color_map == color_map(expense_labels, expense_colors_palette)
      sources == [i \in 1..num_income |-> indices[income_keys[i]]]
                   \o [i \in 1..num_expense |-> indices[budget_key]]
      targets == [i \in 1..num_income |-> indices[budget_key]]
                   \o [i \in 1..num_expense |-> indices[expense_keys[i]]]
      colors == link_color(income, expense, income_color_map, expense_color_map)
  IN [messages |-> Validate(total_income, total_expenses),
      Pastel1 |-> GlobalAfterCall(palette1, num_income),
      Pastel2 |-> GlobalAfterCall(palette2, num_expense),
      frame |->
        IF raised = "none"
        THEN [raised |-> raised,
              income_sources |-> income, expenses |-> expense,
              title |-> title, title_color |-> title_color, layout |-> layout,
              total_income |-> total_income, total_expenses |-> total_expenses,
              label_indices |-> indices,
              income_color_map |-> income_color_map,
              expense_color_map |-> expense_color_map]
        ELSE [raised |-> raised],
      fig |->
        IF raised = "none"
        THEN [arrangement |-> "fixed",
              node |-> [pad |-> 15, thickness |-> 20,
                        line |-> [color |-> "black", width |-> <<1, 2>>],
                        label |-> labels,
                        color |-> node_color(num_income, num_expense),
                        x |-> node_x(num_income, num_expense),
                        y |-> node_y(num_income, num_expense)],
              link |-> [source |-> sources, target |-> targets,
                        value |-> link_value(income, expense), color |-> colors],
              layout |-> layout_update(title, title_color, layout)]
        ELSE NoFigure]

\* ---- the caller ----

\* title, title_color, layout as the callers pass them (defaults of lines 8-10,
\* main's colour pickers, and an override of a builder default)
PresentationOptions ==
  << <<"Budget Sankey Diagram", "black", <<>> >>,
     <<"Annual Budget Overview", "#000000",
       [paper_bgcolor |-> "#FFFFFF", plot_bgcolor |-> "#FFFFFF"]>>,
     <<"Annual Budget Overview", "black", [title_text |-> "Override"]>> >>

AllRich(d) == \A i \in 1..Len(d) : d[i].label \in RichLabels
AllFiller(d) == \A i \in 1..Len(d) : d[i].label = FillerLabels[i] /\ d[i].amount = 1

\* the entries the model lets the caller add: free entries under the labels of
\* RichLabels, or a run of up to MaxLong filler entries of one third of a cent
Admissible(d, name, amount) ==
  \/ /\ name \in RichLabels
     /\ AllRich(d)
  \/ /\ Len(d) < MaxLong
     /\ Len(d) < Len(FillerLabels)
     /\ AllFiller(d)
     /\ name = FillerLabels[Len(d) + 1]
     /\ amount = 1

Discard == /\ pc' = "input" /\ fig' = NoFigure /\ messages' = NoMessages /\ frame' = NoFrame

Init ==
  /\ income_sources = <<>>
  /\ expenses = <<>>
  /\ Pastel1 = PlotlyPastel1
  /\ Pastel2 = PlotlyPastel2
  /\ pc = "input"
  /\ fig = NoFigure
  /\ messages = NoMessages
  /\ frame = NoFrame
  /\ long_calls = 0

\* main, lines 169-170: income_sources[income_name] = income_amount
AddIncome ==
  \E name \in Names, amount \in Amounts :
    /\ Admissible(income_sources, name, amount)
    /\ income_sources' = DictSet(income_sources, name, amount)
    /\ Discard
    /\ UNCHANGED <<expenses, Pastel1, Pastel2, long_calls>>

\* main, lines 184-185: expenses[expense_name] = expense_amount
AddExpense ==
  \E name \in Names, amount \in Amounts :
    /\ Admissible(expenses, name, amount)
    /\ expenses' = DictSet(expenses, name, amount)
    /\ Discard
    /\ UNCHANGED <<income_sources, Pastel1, Pastel2, long_calls>>

\* main, lines 161 and 176: a rerun starts from two empty dicts
Rerun ==
  /\ income_sources' = <<>>
  /\ expenses' = <<>>
  /\ Discard
  /\ UNCHANGED <<Pastel1, Pastel2, long_calls>>

\* the call at hand has more entries than a palette has colours
IsLong == Len(income_sources) > Len(PlotlyPastel1) \/ Len(expenses) > Len(PlotlyPastel2)

\* a call of create_budget_sankey on the caller's dicts
Call ==
  \E p \in 1..Len(PresentationOptions) :
    LET opt == PresentationOptions[p]
        r == create_budget_sankey(income_sources, expenses, opt[1], opt[2], opt[3],
                                  Pastel1, Pastel2)
    IN /\ pc' = "returned"
       /\ fig' = r.fig
       /\ messages' = r.messages
       /\ frame' = r.frame
       /\ Pastel1' = r.Pastel1
       /\ Pastel2' = r.Pastel2
       /\ long_calls' = IF IsLong /\ long_calls < MaxLongCalls
                        THEN long_calls + 1 ELSE long_calls
       /\ UNCHANGED <<income_sources, expenses>>

Next == AddIncome \/ AddExpense \/ Rerun \/ Call

Spec == Init /\ [][Next]_vars

\* ---- properties ----

called == pc = "returned"
Returned == called /\ frame.raised = "none"
ni == Len(income_sources)
ne == Len(expenses)
ti == SumValues(income_sources)
te == SumValues(expenses)

FracEq(a, b) == a[1] * b[2] = b[1] * a[2]
FracLt(a, b) == a[1] * b[2] < b[1] * a[2]

Case(a, b) == IF b > a THEN "Deficit" ELSE IF b < a THEN "Surplus" ELSE "Balanced"

\* C1: the k-th income edge goes from node k to the pool node len(incomes), the
\* j-th expense edge from the pool node to node len(incomes)+1+j (0-based), so
\* no edge bypasses the pool, is a self-loop or touches another entry's node.
C1_EdgesThroughPool ==
  Returned /\ ni >= 1 /\ ne >= 1 =>
    /\ \A k \in 1..ni :
         fig.link.source[k] = k - 1 /\ fig.link.target[k] = ni
    /\ \A j \in 1..ne :
         fig.link.source[ni + j] = ni /\ fig.link.target[ni + j] = ni + j

\* C2: the figure has len(incomes) + 1 + len(expenses) nodes (labels, x, y and
\* colours alike) and len(incomes) + len(expenses) edges (sources, targets,
\* values and colours alike), whatever the sizes.
C2_NodeAndEdgeCounts ==
  called =>
    /\ frame.raised = "none"
    /\ Len(fig.node.label) = ni + 1 + ne
    /\ Len(fig.node.x) = ni + 1 + ne
    /\ Len(fig.node.y) = ni + 1 + ne
    /\ Len(fig.node.color) = ni + 1 + ne
    /\ Len(fig.link.source) = ni + ne
    /\ Len(fig.link.target) = ni + ne
    /\ Len(fig.link.value) = ni + ne
    /\ Len(fig.link.color) = ni + ne

\* two entries share one display label, so the index table is smaller than
\* the node list
C2_Witness ==
  /\ Returned
  /\ ni = 2 /\ ne = 2
  /\ Cardinality(DOMAIN frame.label_indices) < Len(fig.node.label)

C4_PoolIsTotalIncome ==
  called =>
    /\ frame.raised = "none"
    /\ fig.node.label[ni + 1] = <<"Budget", FormatAmount(ti)>>

C4_Witness ==
  /\ Returned
  /\ ni >= 1
  /\ FormatAmount(te) > FormatAmount(ti)
  /\ fig.node.label[ni + 1][2] = FormatAmount(ti)

\* C5: no call raises; in the balanced, surplus and deficit cases alike the
\* figure is returned with its nodes and edges.
C5_NoErrorRaised ==
  called =>
    /\ frame.raised = "none"
    /\ fig # NoFigure
    /\ fig.arrangement = "fixed"
    /\ DOMAIN fig.node.label = 1..(ni + 1 + ne)
    /\ DOMAIN fig.link.source = 1..(ni + ne)

\* a deficit call whose entries share display labels with each other and the pool
C5_Witness ==
  /\ Returned
  /\ messages.kind = "warning"
  /\ \E i \in 1..ni : \E j \in 1..ne :
       DisplayLabel(income_sources[i].label, income_sources[i].amount)
         = DisplayLabel(expenses[j].label, expenses[j].amount)
  /\ fig # NoFigure

\* C6: whatever calls came before, a call leaves the palettes and the caller's
\* dicts as they were and returns the figure a first call with its arguments
\* returns.
C6_CallsIndependent ==
  [][pc' = "returned" =>
       /\ Pastel1' = PlotlyPastel1 /\ Pastel2' = PlotlyPastel2
       /\ Pastel1' = Pastel1 /\ Pastel2' = Pastel2
       /\ income_sources' = income_sources /\ expenses' = expenses
       /\ frame'.raised = "none"
       /\ fig' = create_budget_sankey(income_sources', expenses', frame'.title,
                                      frame'.title_color, frame'.layout,
                                      PlotlyPastel1, PlotlyPastel2).fig]_vars

\* a call within the palettes' sizes made after a call that exceeded them
C6_Witness ==
  /\ Returned
  /\ long_calls >= 1
  /\ ~IsLong
  /\ ni >= 1 /\ ne >= 1

\* C7: the i-th income entry (0-based) gets income-palette colour i mod 9 and
\* the j-th expense entry expense-palette colour j mod 8.
C7_ColorsCycle ==
  called =>
    /\ frame.raised = "none"
    /\ \A i \in 1..ni :
         frame.income_color_map[income_sources[i].label]
           = PlotlyPastel1[((i - 1) % Len(PlotlyPastel1)) + 1]
    /\ \A j \in 1..ne :
         frame.expense_color_map[expenses[j].label]
           = PlotlyPastel2[((j - 1) % Len(PlotlyPastel2)) + 1]

\* both entry counts are exact multiples of, and larger than, their palette
C7_Witness ==
  /\ Returned
  /\ ni = 2 * Len(PlotlyPastel1)
  /\ ne = 2 * Len(PlotlyPastel2)
  /\ frame.income_color_map[income_sources[ni].label] = PlotlyPastel1[Len(PlotlyPastel1)]

\* C8: in a column of k nodes node i (0-based) is at y = (i+1)/(k+1), strictly
\* increasing and inside (0,1); the pool is at y = 0.5; the columns are at
\* x = 0, 0.5 and 1.
C8_Positions ==
  called =>
    /\ frame.raised = "none"
    /\ \A i \in 1..ni :
         /\ FracEq(fig.node.y[i], <<i, ni + 1>>)
         /\ FracLt(<<0, 1>>, fig.node.y[i]) /\ FracLt(fig.node.y[i], <<1, 1>>)
         /\ i < ni => FracLt(fig.node.y[i], fig.node.y[i + 1])
         /\ FracEq(fig.node.x[i], <<0, 1>>)
    /\ FracEq(fig.node.y[ni + 1], <<1, 2>>)
    /\ FracEq(fig.node.x[ni + 1], <<1, 2>>)
    /\ \A j \in 1..ne :
         /\ FracEq(fig.node.y[ni + 1 + j], <<j, ne + 1>>)
         /\ FracLt(<<0, 1>>, fig.node.y[ni + 1 + j])
         /\ FracLt(fig.node.y[ni + 1 + j], <<1, 1>>)
         /\ j < ne => FracLt(fig.node.y[ni + 1 + j], fig.node.y[ni + 2 + j])
         /\ FracEq(fig.node.x[ni + 1 + j], <<1, 1>>)

\* a column of one node, at 0.5, beside a column of several
C8_Witness ==
  /\ Returned
  /\ ni = 1 /\ ne >= 3
  /\ FracEq(fig.node.y[1], <<1, 2>>)

\* C9: the edge values are the income amounts in insertion order followed by
\* the expense amounts in insertion order, unrounded.
C9_ValuesAreAmounts ==
  called =>
    /\ frame.raised = "none"
    /\ Len(fig.link.value) = ni + ne
    /\ \A k \in 1..ni : fig.link.value[k] = income_sources[k].amount
    /\ \A j \in 1..ne : fig.link.value[ni + j] = expenses[j].amount

\* amounts that the label format rounds, in an order that is not sorted
C9_Witness ==
  /\ Returned
  /\ ni = 2 /\ ne = 2
  /\ income_sources[1].amount > income_sources[2].amount
  /\ 3 * FormatAmount(income_sources[2].amount) # income_sources[2].amount
  /\ fig.link.value[2] = income_sources[2].amount

\* C10 as stated: an edge has the colour of the income node it leaves or of
\* the expense node it enters.
C10_EdgeColorIsNodeColor ==
  Returned /\ ni >= 1 /\ ne >= 1 =>
    /\ \A k \in 1..ni : fig.link.color[k] = fig.node.color[k]
    /\ \A j \in 1..ne : fig.link.color[ni + j] = fig.node.color[ni + 1 + j]

\* C10 amended: an edge has the palette colour assigned to the entry of its
\* non-pool end; the nodes have the fixed colours of their columns.
C10_EdgeColorIsEntryColor ==
  called =>
    /\ frame.raised = "none"
    /\ \A k \in 1..ni :
         /\ fig.link.color[k] = frame.income_color_map[income_sources[k].label]
         /\ fig.node.color[k] = "#a6cee3"
    /\ fig.node.color[ni + 1] = "#98df8a"
    /\ \A j \in 1..ne :
         /\ fig.link.color[ni + j] = frame.expense_color_map[expenses[j].label]
         /\ fig.node.color[ni + 1 + j] = "#ffbb78"

C10_Witness ==
  /\ Returned
  /\ ni >= 2 /\ ne >= 2
  /\ fig.link.color[1] # fig.link.color[2]
  /\ fig.link.color[1] # fig.node.color[1]

====
